---- MODULE Spec2Model ----
(***************************************************************************)
(* A model of scripts/generate_day.py: the generator of one day of         *)
(* per-station, per-line ridership estimates.                              *)
(*                                                                         *)
(* Values.  A Python value that may be None or an absent dictionary key is *)
(* an option: <<>> for None/absent, <<v>> for the value v.  Timestamps are *)
(* minutes since midnight of day 0.  A Python float is an exact fraction   *)
(* <<n, d>>; round() is round-half-to-even on it, and the rounded outputs  *)
(* are kept as scaled integers (thousandths, hundredths).  A DataFrame is  *)
(* its column set and its sequence of rows, a row holding the cells that   *)
(* are not NaN.                                                            *)
(*                                                                         *)
(* On every combination of headway, capacity, dwell and cap of the seed    *)
(* data below, the exact fractions round to the values that CPython's      *)
(* binary doubles round to.  In general a double may fall on either side   *)
(* of an exact tie, so the properties bound the distance to the exact      *)
(* value and do not fix the side of a tie.                                 *)
(*                                                                         *)
(* The configured output format and the presence of the parquet writer are *)
(* read only by the output step, and are drawn there.                      *)
(***************************************************************************)
EXTENDS Integers, Sequences, FiniteSets, TLC

VARIABLES CFG, today, stations, pc, si, li, all_chunks, day_df,
          fmt, pyarrow, files, stdout, exit

vars == <<CFG, today, stations, pc, si, li, all_chunks, day_df,
          fmt, pyarrow, files, stdout, exit>>

(***************************************************************************)
(* Bounds of the model.                                                    *)
(***************************************************************************)
MaxStations == 2
MaxHours == 2

(***************************************************************************)
(* Python values.                                                          *)
(***************************************************************************)
NoneV == <<>>
Some(x) == <<x>>

\* Python truthiness of an optional number: not None and not zero.
Truthy(o) == o # NoneV /\ o[1] # 0

\* `o or []` for an optional list.
OrEmpty(o) == IF o = NoneV THEN <<>> ELSE o[1]

Abs(x) == IF x < 0 THEN -x ELSE x

RECURSIVE GCD(_, _)
GCD(a, b) == IF b = 0 THEN a ELSE GCD(b, a % b)

\* A float, as the exact fraction n/d in lowest terms (d > 0).
Frac(n, d) == LET g == GCD(Abs(n), d) IN <<n \div g, d \div g>>
FMul(f, k) == Frac(f[1] * k, f[2])
FDiv(f, k) == Frac(f[1], f[2] * k)

\* round(): to the nearest integer, a tie to the even one.
RoundHalfEven(n, d) ==
    LET q == n \div d
        r == n % d
    IN  IF 2 * r < d THEN q
        ELSE IF 2 * r > d THEN q + 1
        ELSE IF q % 2 = 0 THEN q ELSE q + 1

\* round(x): the integer.
Round0(f) == RoundHalfEven(f[1], f[2])
\* round(x, k): the result in units of 1/scale, scale = 10^k.
RoundTo(f, scale) == RoundHalfEven(f[1] * scale, f[2])

(***************************************************************************)
(* Seed data: lines.json.                                                  *)
(***************************************************************************)
Clock(h, m) == [hh |-> h, mm |-> m]
Window(s, e) == [start |-> s, end |-> e]

LineRec(name, total, cars, carriage, windows, patterns) ==
    [line_name |-> name, train_total_capacity |-> total,
     cars_per_train |-> cars, carriage_capacity |-> carriage,
     peak_windows |-> windows, headway_patterns |-> patterns]

Patterns(p, o) == Some([peak_min |-> p, offpeak_min |-> o])

\* "A" appears twice (the later record wins); "B" derives its capacity and has a
\* window that wraps midnight; "C" has an empty peak pattern; "D" has no capacity;
\* "E" has neither capacity nor headway patterns; "F" has a zero explicit capacity
\* and no peak windows.  "Z" is in no record.
lines_list ==
    << LineRec("A", Some(400), NoneV, NoneV, NoneV,
               Patterns(Some(<<4>>), Some(<<4>>))),
       LineRec("A", Some(1000), Some(2), Some(100),
               Some(<<Window(Clock(6, 30), Clock(7, 0))>>),
               Patterns(Some(<<3, 5>>), Some(<<10, 7, 24>>))),
       LineRec("B", NoneV, Some(7), Some(175),
               Some(<<Window(Clock(23, 30), Clock(0, 30)),
                      Window(Clock(0, 0), Clock(0, 30))>>),
               Patterns(Some(<<24>>), Some(<<7, 24>>))),
       LineRec("C", Some(1000), NoneV, NoneV, NoneV,
               Patterns(Some(<<>>), Some(<<10>>))),
       LineRec("D", NoneV, Some(5), NoneV, NoneV,
               Patterns(Some(<<5>>), Some(<<10>>))),
       LineRec("E", NoneV, NoneV, NoneV, NoneV, NoneV),
       LineRec("F", Some(0), Some(5), Some(200), Some(<<>>),
               Patterns(Some(<<6>>), Some(<<48, 7>>))) >>

\* lines = {x["line_name"]: x for x in lines_list}; lines.get(ln).
lines(ln) ==
    LET idx == {i \in 1..Len(lines_list) : lines_list[i].line_name = ln}
        last == CHOOSE i \in idx : \A j \in idx : j <= i
    IN  IF idx = {} THEN NoneV ELSE Some(lines_list[last])

(***************************************************************************)
(* Seed data: stations.json.                                               *)
(***************************************************************************)
StationRec(code, occ, plat, peak, ls) ==
    [station_code |-> code, station_name |-> code,
     occupancy_cap |-> occ, platform_cap |-> plat, peak_cap |-> peak,
     lines |-> ls]

StationSeeds ==
    { StationRec("S1", Some(1000), Some(500), Some(2000), Some(<<"A">>)),
      StationRec("S2", NoneV, Some(0), Some(3000), Some(<<"B", "A">>)),
      StationRec("S3", Some(0), NoneV, NoneV, Some(<<"Z", "F">>)),
      StationRec("S4", Some(800), NoneV, Some(0), Some(<<"C", "B">>)),
      StationRec("S5", Some(1000), Some(500), Some(2000), NoneV),
      StationRec("S6", NoneV, NoneV, NoneV, Some(<<>>)),
      StationRec("S7", Some(1000), NoneV, NoneV, Some(<<"E">>)),
      StationRec("S8", NoneV, Some(700), NoneV, Some(<<"A", "D">>)) }

RECURSIVE SeqsUpTo(_, _)
SeqsUpTo(S, n) ==
    IF n = 0 THEN {<<>>}
    ELSE LET shorter == SeqsUpTo(S, n - 1)
         IN  shorter \cup {Append(q, x) : q \in shorter, x \in S}

(***************************************************************************)
(* Configuration: 00_config.yaml.                                          *)
(***************************************************************************)
Schedules ==
    { [start_hour |-> sh[1], hours_per_day |-> h, minute_resolution |-> sh[2]] :
        sh \in {<<6, 30>>, <<23, 30>>, <<6, 60>>}, h \in 0..MaxHours }

DwellValues == {NoneV, Some(3)}
FormatValues == {NoneV, Some("CSV"), Some("parquet"), Some("json")}

(***************************************************************************)
(* build_timerange.                                                        *)
(***************************************************************************)
MinutesPerDay == 24 * 60

\* datetime.now().replace(hour=start_hour, minute=0, second=0, microsecond=0)
StartOf(cfg, day) == day * MinutesPerDay + cfg.schedule.start_hour * 60

\* pd.date_range(start, end, freq=f"{res_min}min", inclusive="left")
DateRange(start, end, res) ==
    LET n == IF end <= start THEN 0 ELSE (end - start + res - 1) \div res
    IN  [k \in 1..n |-> start + (k - 1) * res]

build_timerange(cfg, day) ==
    LET start == StartOf(cfg, day)
        end == start + cfg.schedule.hours_per_day * 60
    IN  DateRange(start, end, cfg.schedule.minute_resolution)

\* start.strftime('%Y%m%d'): the calendar day of the start instant.
Strftime(start) == start \div MinutesPerDay

(***************************************************************************)
(* is_peak.                                                                *)
(***************************************************************************)
\* ts.time(): the time of day, the date dropped.
TimeOfDay(ts) == ts % MinutesPerDay

\* datetime.strptime(text, "%H:%M").time()
Strptime(c) == c.hh * 60 + c.mm

\* A variant with the end of the window excluded.
InWindowOpenEnd(tod, w) == Strptime(w.start) <= tod /\ tod < Strptime(w.end)

\* s <= tod <= e
InWindow(tod, w) == Strptime(w.start) <= tod /\ tod <= Strptime(w.end)

\* The for loop of is_peak from window k on: the first window that holds the time
\* returns True, the end of the list False.
RECURSIVE PeakLoop(_, _, _)
PeakLoop(tod, ws, k) ==
    IF k > Len(ws) THEN FALSE
    ELSE IF InWindow(tod, ws[k]) THEN TRUE
    ELSE PeakLoop(tod, ws, k + 1)

is_peak(ts, peak_windows) ==
    IF peak_windows = <<>> THEN FALSE
    ELSE PeakLoop(TimeOfDay(ts), peak_windows, 1)

(***************************************************************************)
(* cyclical_pick and train_capacity.                                       *)
(***************************************************************************)
\* A variant that stays on the last element instead of wrapping around.
cyclical_pick_clamped(seq, i) == seq[(IF i < Len(seq) THEN i ELSE Len(seq) - 1) + 1]

\* seq[i % len(seq)], i from zero.
cyclical_pick(seq, i) == seq[(i % Len(seq)) + 1]

\* Whether train_capacity returns: the explicit field is truthy, or both factors
\* of the product are there.  Otherwise it raises KeyError.
CapacityDerivable(line_def) ==
    \/ Truthy(line_def.train_total_capacity)
    \/ line_def.cars_per_train # NoneV /\ line_def.carriage_capacity # NoneV

\* A variant that prefers the product to the explicit total.
train_capacity_product_first(line_def) ==
    IF line_def.cars_per_train # NoneV /\ line_def.carriage_capacity # NoneV
    THEN line_def.cars_per_train[1] * line_def.carriage_capacity[1]
    ELSE line_def.train_total_capacity[1]

train_capacity(line_def) ==
    IF Truthy(line_def.train_total_capacity)
    THEN line_def.train_total_capacity[1]
    ELSE line_def.cars_per_train[1] * line_def.carriage_capacity[1]

(***************************************************************************)
(* The metrics of one row (main, the body of the timestamp loop).          *)
(***************************************************************************)
\* tph = 60.0 / hw_min
TrainsPerHour(hw_min) == Frac(60, hw_min)

\* A variant that derives the flow from the rounded trains-per-hour.
PassengersPerMin_rounded_tph(tph, cap_train) ==
    FDiv(FMul(Frac(RoundTo(tph, 1000), 1000), cap_train), 60)

\* ppm = (tph * cap_train) / 60.0
PassengersPerMin(tph, cap_train) == FDiv(FMul(tph, cap_train), 60)

\* A variant that truncates the product instead of keeping it for round().
EstPresent_truncated(ppm, dwell_min) ==
    LET x == FMul(ppm, dwell_min) IN Frac(x[1] \div x[2], 1)

\* est_present = ppm * dwell_min
EstPresent(ppm, dwell_min) == FMul(ppm, dwell_min)

EmptyFields == [x \in {} |-> 0]

\* A variant whose platform metric copies the station metric's guard and cap.
PctFields_copied_guard(st, ppm, est_present) ==
    (IF Truthy(st.occupancy_cap)
     THEN "crowding_station_pct" :>
              RoundTo(FDiv(FMul(est_present, 100), st.occupancy_cap[1]), 100)
     ELSE EmptyFields)
    @@
    (IF Truthy(st.occupancy_cap)
     THEN "crowding_platform_pct" :>
              RoundTo(FDiv(FMul(est_present, 100), st.occupancy_cap[1]), 100)
     ELSE EmptyFields)
    @@
    (IF Truthy(st.peak_cap)
     THEN "flow_vs_peak_pct" :>
              RoundTo(FDiv(FMul(FMul(ppm, 60), 100), st.peak_cap[1]), 100)
     ELSE EmptyFields)

\* The three percentage cells, each under its own `if <cap>:`.
PctFields(st, ppm, est_present) ==
    (IF Truthy(st.occupancy_cap)
     THEN "crowding_station_pct" :>
              RoundTo(FDiv(FMul(est_present, 100), st.occupancy_cap[1]), 100)
     ELSE EmptyFields)
    @@
    (IF Truthy(st.platform_cap)
     THEN "crowding_platform_pct" :>
              RoundTo(FDiv(FMul(FDiv(FMul(est_present, 4), 10), 100),
                           st.platform_cap[1]), 100)
     ELSE EmptyFields)
    @@
    (IF Truthy(st.peak_cap)
     THEN "flow_vs_peak_pct" :>
              RoundTo(FDiv(FMul(FMul(ppm, 60), 100), st.peak_cap[1]), 100)
     ELSE EmptyFields)

\* (line_def.get("headway_patterns") or {}).get(key) or []
HeadwayPattern(line_def, key) ==
    IF line_def.headway_patterns = NoneV THEN <<>>
    ELSE OrEmpty(line_def.headway_patterns[1][key])

\* One row: timestamp ts at grid index i (from zero) of station st on line ln.
Row(st, ln, line_def, i, ts, cap_train, dwell_min) ==
    LET peak_windows == OrEmpty(line_def.peak_windows)
        hw_peak == HeadwayPattern(line_def, "peak_min")
        hw_off == HeadwayPattern(line_def, "offpeak_min")
        peak == is_peak(ts, peak_windows)
        hw_min == cyclical_pick(IF peak THEN hw_peak ELSE hw_off, i)
        tph == TrainsPerHour(hw_min)
        ppm == PassengersPerMin(tph, cap_train)
        est_present == EstPresent(ppm, dwell_min)
    IN  [timestamp |-> ts,
         station_code |-> st.station_code,
         station_name |-> st.station_name,
         line_name |-> ln,
         is_peak |-> peak,
         headway_min |-> hw_min,
         trains_per_hour |-> RoundTo(tph, 1000),
         train_capacity |-> cap_train,
         passengers_per_min |-> RoundTo(ppm, 1000),
         estimated_present |-> Round0(est_present)]
        @@ PctFields(st, ppm, est_present)

\* for i, ts in enumerate(times): rows.append(row)
Rows(st, ln, line_def, times, cap_train, dwell_min) ==
    [k \in 1..Len(times) |->
        Row(st, ln, line_def, k - 1, times[k], cap_train, dwell_min)]

\* pd.DataFrame(rows): the columns are the keys of the rows.
DataFrame(rows) ==
    [columns |-> UNION {DOMAIN rows[k] : k \in 1..Len(rows)}, rows |-> rows]

RECURSIVE ConcatRows(_)
ConcatRows(chunks) ==
    IF chunks = <<>> THEN <<>>
    ELSE Head(chunks).rows \o ConcatRows(Tail(chunks))

\* A variant that stacks the chunks last to first.
RECURSIVE ConcatRows_reversed(_)
ConcatRows_reversed(chunks) ==
    IF chunks = <<>> THEN <<>>
    ELSE ConcatRows_reversed(Tail(chunks)) \o Head(chunks).rows

Concat_reversed(chunks) ==
    [columns |-> UNION {chunks[k].columns : k \in 1..Len(chunks)},
     rows |-> ConcatRows_reversed(chunks)]

\* pd.concat(all_chunks, ignore_index=True)
Concat(chunks) ==
    [columns |-> UNION {chunks[k].columns : k \in 1..Len(chunks)},
     rows |-> ConcatRows(chunks)]

(***************************************************************************)
(* main.                                                                   *)
(***************************************************************************)
\* The day of datetime.now(); the grid runs into the next day when it crosses midnight.
Days == {1}
DefaultDwell == 12

\* CFG.get("assumptions", {}).get("avg_dwell_min", 12)
dwell_min == IF CFG.avg_dwell_min = NoneV THEN DefaultDwell ELSE CFG.avg_dwell_min[1]

times == build_timerange(CFG, today)
start == StartOf(CFG, today)

\* [l.get("line_name") for l in (st.get(F["lines_field"]) or [])]
lines_in_station(st) == OrEmpty(st.lines)

\* The next (station, line) position of the two nested for loops after line l of
\* station s, which has n lines.
NextIndex(s, l, n) == IF l < n THEN <<s, l + 1>> ELSE <<s + 1, 1>>

\* A variant that leaves the station's remaining lines (`break`).
Continue_as_break(s, l, n) == <<s + 1, 1>>

\* `continue` in the loop over lines_in_station.
Continue(s, l, n) == NextIndex(s, l, n)

\* if not hw_peak or not hw_off
HeadwayIncomplete(line_def) ==
    \/ HeadwayPattern(line_def, "peak_min") = <<>>
    \/ HeadwayPattern(line_def, "offpeak_min") = <<>>

EmptyFrame == [columns |-> {}, rows |-> <<>>]

Init ==
    /\ CFG \in [schedule : Schedules, avg_dwell_min : DwellValues]
    /\ today \in Days
    /\ stations \in SeqsUpTo(StationSeeds, MaxStations)
    /\ pc = "loop"
    /\ si = 1
    /\ li = 1
    /\ all_chunks = <<>>
    /\ day_df = EmptyFrame
    /\ fmt = ""
    /\ pyarrow = "unknown"
    /\ files = {}
    /\ stdout = <<>>
    /\ exit = "running"

InLoop == pc = "loop" /\ si <= Len(stations)

\* if not lines_in_station: continue
StationNoLines ==
    /\ InLoop
    /\ lines_in_station(stations[si]) = <<>>
    /\ si' = si + 1
    /\ li' = 1
    /\ UNCHANGED <<CFG, today, stations, pc, all_chunks, day_df, fmt, pyarrow,
                   files, stdout, exit>>

\* line_def = lines.get(ln); if not line_def: warn and continue
LineMissing ==
    /\ InLoop
    /\ lines_in_station(stations[si]) # <<>>
    /\ LET lis == lines_in_station(stations[si])
           nxt == Continue(si, li, Len(lis))
       IN  /\ lines(lis[li]) = NoneV
           /\ si' = nxt[1]
           /\ li' = nxt[2]
    /\ stdout' = Append(stdout, "WARN line")
    /\ UNCHANGED <<CFG, today, stations, pc, all_chunks, day_df, fmt, pyarrow,
                   files, exit>>

\* if not hw_peak or not hw_off: warn and continue
HeadwayMissing ==
    /\ InLoop
    /\ lines_in_station(stations[si]) # <<>>
    /\ LET lis == lines_in_station(stations[si])
           nxt == Continue(si, li, Len(lis))
       IN  /\ lines(lis[li]) # NoneV
           /\ HeadwayIncomplete(lines(lis[li])[1])
           /\ si' = nxt[1]
           /\ li' = nxt[2]
    /\ stdout' = Append(stdout, "WARN headway")
    /\ UNCHANGED <<CFG, today, stations, pc, all_chunks, day_df, fmt, pyarrow,
                   files, exit>>

\* cap_train = train_capacity(line_def) raises KeyError: the run ends there.
CapacityError ==
    /\ InLoop
    /\ lines_in_station(stations[si]) # <<>>
    /\ LET lis == lines_in_station(stations[si])
       IN  /\ lines(lis[li]) # NoneV
           /\ ~HeadwayIncomplete(lines(lis[li])[1])
           /\ ~CapacityDerivable(lines(lis[li])[1])
    /\ pc' = "failed"
    /\ exit' = "KeyError"
    /\ UNCHANGED <<CFG, today, stations, si, li, all_chunks, day_df, fmt, pyarrow,
                   files, stdout>>

\* The timestamp loop of one station-line pair, and all_chunks.append(df).
GenerateBlock ==
    /\ InLoop
    /\ lines_in_station(stations[si]) # <<>>
    /\ LET st == stations[si]
           lis == lines_in_station(st)
           ln == lis[li]
           nxt == NextIndex(si, li, Len(lis))
       IN  /\ lines(ln) # NoneV
           /\ ~HeadwayIncomplete(lines(ln)[1])
           /\ CapacityDerivable(lines(ln)[1])
           /\ LET line_def == lines(ln)[1]
                  cap_train == train_capacity(line_def)
                  rows == Rows(st, ln, line_def, times, cap_train, dwell_min)
              IN  all_chunks' = Append(all_chunks, DataFrame(rows))
           /\ si' = nxt[1]
           /\ li' = nxt[2]
    /\ UNCHANGED <<CFG, today, stations, pc, day_df, fmt, pyarrow, files, stdout,
                   exit>>

LoopDone == pc = "loop" /\ si > Len(stations)

\* if not all_chunks: raise SystemExit(...)
NoData ==
    /\ LoopDone
    /\ all_chunks = <<>>
    /\ pc' = "failed"
    /\ exit' = "SystemExit"
    /\ UNCHANGED <<CFG, today, stations, si, li, all_chunks, day_df, fmt, pyarrow,
                   files, stdout>>

\* day_df = pd.concat(all_chunks, ignore_index=True)
ConcatChunks ==
    /\ LoopDone
    /\ all_chunks # <<>>
    /\ day_df' = Concat(all_chunks)
    /\ pc' = "output"
    /\ UNCHANGED <<CFG, today, stations, si, li, all_chunks, fmt, pyarrow, files,
                   stdout, exit>>

\* str.lower() on the configured values.
Lower(s) == IF s = "CSV" THEN "csv" ELSE s

\* (CFG["output"].get("format") or "parquet").lower()
Format(f) == Lower(IF f = NoneV \/ f = Some("") THEN "parquet" ELSE f[1])

\* Path(out_dir) / f"day_{stamp}.{ext}"
Path(stamp, ext) == [stamp |-> stamp, ext |-> ext]

\* out_path as first computed: 'csv' if fmt == 'csv' else 'parquet'
OutPath(stamp, f) == Path(stamp, IF f = "csv" THEN "csv" ELSE "parquet")

\* A variant that keeps the .parquet path for the CSV fallback.
FallbackPath_unchanged(stamp) == Path(stamp, "parquet")

\* out_path = Path(out_dir) / f"day_{stamp}.csv" in the ImportError branch
FallbackPath(stamp) == Path(stamp, "csv")

Written(path, format) == [path |-> path, format |-> format, nrows |-> Len(day_df.rows)]

\* fmt == "csv": day_df.to_csv(out_path).  The configured format is read here.
WriteCsv ==
    /\ pc = "output"
    /\ \E f \in FormatValues :
          /\ Format(f) = "csv"
          /\ fmt' = Format(f)
          /\ files' = files \cup {Written(OutPath(Strftime(start), Format(f)), "csv")}
    /\ pc' = "summary"
    /\ UNCHANGED <<CFG, today, stations, si, li, all_chunks, day_df, pyarrow,
                   stdout, exit>>

\* Any other format, `import pyarrow` succeeds: day_df.to_parquet(out_path).
WriteParquet ==
    /\ pc = "output"
    /\ \E f \in FormatValues :
          /\ Format(f) # "csv"
          /\ fmt' = Format(f)
          /\ files' = files \cup {Written(OutPath(Strftime(start), Format(f)), "parquet")}
    /\ pyarrow' = "present"
    /\ pc' = "summary"
    /\ UNCHANGED <<CFG, today, stations, si, li, all_chunks, day_df, stdout, exit>>

\* Any other format, `import pyarrow` raises ImportError: notice, CSV at .csv.
FallbackCsv ==
    /\ pc = "output"
    /\ \E f \in FormatValues :
          /\ Format(f) # "csv"
          /\ fmt' = Format(f)
    /\ files' = files \cup {Written(FallbackPath(Strftime(start)), "csv")}
    /\ pyarrow' = "absent"
    /\ stdout' = Append(stdout, "INFO pyarrow")
    /\ pc' = "summary"
    /\ UNCHANGED <<CFG, today, stations, si, li, all_chunks, day_df, exit>>

GroupKeys == {"station_code", "line_name"}

\* The prints of the row count and the path, the groupby and the top-12 table.
SummaryOk ==
    /\ pc = "summary"
    /\ GroupKeys \subseteq day_df.columns
    /\ stdout' = stdout \o <<"rows", "file", "top">>
    /\ pc' = "done"
    /\ exit' = "ok"
    /\ UNCHANGED <<CFG, today, stations, si, li, all_chunks, day_df, fmt, pyarrow,
                   files>>

\* day_df.groupby([...]) on a frame without the key columns raises KeyError,
\* after the first two prints.
SummaryKeyError ==
    /\ pc = "summary"
    /\ ~(GroupKeys \subseteq day_df.columns)
    /\ stdout' = stdout \o <<"rows", "file">>
    /\ pc' = "failed"
    /\ exit' = "KeyError"
    /\ UNCHANGED <<CFG, today, stations, si, li, all_chunks, day_df, fmt, pyarrow,
                   files>>

Next ==
    \/ StationNoLines
    \/ LineMissing
    \/ HeadwayMissing
    \/ CapacityError
    \/ GenerateBlock
    \/ NoData
    \/ ConcatChunks
    \/ WriteCsv
    \/ WriteParquet
    \/ FallbackCsv
    \/ SummaryOk
    \/ SummaryKeyError

Spec == Init /\ [][Next]_vars

(***************************************************************************)
(* Vocabulary of the properties.                                           *)
(***************************************************************************)
Terminated == pc \in {"done", "failed"}

\* day_df has been assigned.
Concatenated == pc \in {"output", "summary", "done"} \/ files # {}

\* Every row generated so far, in generation order.
EmittedRows == ConcatRows(all_chunks)

\* The station-line pairs of the seed data, in station order and then in the
\* order of each station's lines list.
RECURSIVE PairsFrom(_)
PairsFrom(s) ==
    IF s > Len(stations) THEN <<>>
    ELSE [l \in 1..Len(lines_in_station(stations[s])) |-> <<s, l>>] \o PairsFrom(s + 1)

AllPairs == PairsFrom(1)

PairLine(p) == lines_in_station(stations[p[1]])[p[2]]

AbsentOrEmpty(o) == o = NoneV \/ o = Some(<<>>)

\* The line's record is not in the line seed.
LineAbsent(ln) == \A k \in 1..Len(lines_list) : lines_list[k].line_name # ln

\* The record that the mapping keeps for a name: the last one of the list.
LineRecord(ln) ==
    lines_list[CHOOSE k \in 1..Len(lines_list) :
                  /\ lines_list[k].line_name = ln
                  /\ \A j \in (k + 1)..Len(lines_list) : lines_list[j].line_name # ln]

PatternMissing(ld) ==
    \/ ld.headway_patterns = NoneV
    \/ AbsentOrEmpty(ld.headway_patterns[1].peak_min)
    \/ AbsentOrEmpty(ld.headway_patterns[1].offpeak_min)

\* A pair the specification calls skipped.
PairSkipped(p) == LineAbsent(PairLine(p)) \/ PatternMissing(LineRecord(PairLine(p)))
PairKept(p) == ~PairSkipped(p)

\* The loops have gone past the pair.
PairDone(p) == p[1] < si \/ (p[1] = si /\ p[2] < li)

\* No explicit truthy capacity, and not both factors of the product.
LacksCapacity(ld) ==
    /\ ld.train_total_capacity = NoneV \/ ld.train_total_capacity = Some(0)
    /\ ld.cars_per_train = NoneV \/ ld.carriage_capacity = NoneV

SeedStation(code) == CHOOSE s \in StationSeeds : s.station_code = code

CapPresent(o) == o # NoneV /\ o # Some(0)

C2_SkipsAreRecoverable ==
    LET kept == SelectSeq(SelectSeq(AllPairs, PairDone), PairKept)
        T == Len(times)
    IN  /\ Len(all_chunks) = Len(kept)
        /\ \A c \in 1..Len(all_chunks) :
              /\ Len(all_chunks[c].rows) = T
              /\ \A k \in 1..T :
                    /\ all_chunks[c].rows[k].station_code =
                           stations[kept[c][1]].station_code
                    /\ all_chunks[c].rows[k].line_name = PairLine(kept[c])
        /\ pc = "failed" /\ ~Concatenated /\ exit # "SystemExit" =>
              /\ si <= Len(stations)
              /\ li <= Len(lines_in_station(stations[si]))
              /\ PairKept(<<si, li>>)

\* Both warnings were printed, each skipped pair was followed by a kept one, and
\* the run ended well.
C2_Witness ==
    /\ exit = "ok"
    /\ \E k \in 1..Len(stdout) : stdout[k] = "WARN line"
    /\ \E k \in 1..Len(stdout) : stdout[k] = "WARN headway"
    /\ Len(all_chunks) = 2
    /\ Len(times) >= 2

(***************************************************************************)
(* C3.                                                                     *)
(***************************************************************************)
\* Some station's lines list names a line whose record lacks a capacity.
ReferencesLineLackingCapacity ==
    \E k \in 1..Len(AllPairs) :
        /\ ~LineAbsent(PairLine(AllPairs[k]))
        /\ LacksCapacity(LineRecord(PairLine(AllPairs[k])))

\* Some kept pair's line lacks a capacity.
KeptPairLacksCapacity ==
    \E k \in 1..Len(AllPairs) :
        /\ PairKept(AllPairs[k])
        /\ LacksCapacity(LineRecord(PairLine(AllPairs[k])))

\* The capacity of every row: the explicit total when truthy, else the product.
RowCapacities ==
    LET rows == EmittedRows
    IN  \A k \in 1..Len(rows) :
        LET ld == LineRecord(rows[k].line_name)
        IN  rows[k].train_capacity =
                IF CapPresent(ld.train_total_capacity)
                THEN ld.train_total_capacity[1]
                ELSE ld.cars_per_train[1] * ld.carriage_capacity[1]

\* C3 as stated: whenever a station references a line record without a
\* capacity, the run fails: it never completes successfully.
C3_AnyReferenceIsFatal ==
    /\ ReferencesLineLackingCapacity => exit # "ok"
    /\ RowCapacities

\* C3, amended: whenever a station references such a record whose two headway
\* patterns are both non-empty (the pair is not skipped), the run fails with the
\* propagated KeyError and writes nothing; the capacity of every row is the
\* explicit total when truthy, else cars_per_train * carriage_capacity.
C3_KeptReferenceIsFatal ==
    /\ KeptPairLacksCapacity =>
           /\ exit \notin {"ok", "SystemExit"}
           /\ ~Concatenated
           /\ Terminated =>
                  /\ exit = "KeyError"
                  /\ si <= Len(stations)
                  /\ LacksCapacity(LineRecord(PairLine(<<si, li>>)))
    /\ RowCapacities

\* train_capacity raised after a block with an explicit capacity and a block with
\* a derived one had been generated.
C3_Witness ==
    /\ pc = "failed"
    /\ exit = "KeyError"
    /\ KeptPairLacksCapacity
    /\ \E k \in 1..Len(EmittedRows) :
          /\ EmittedRows[k].line_name = "B"
          /\ EmittedRows[k].train_capacity = 7 * 175

(***************************************************************************)
(* C4.                                                                     *)
(***************************************************************************)
LinePattern(ln, peak) ==
    IF peak THEN LineRecord(ln).headway_patterns[1].peak_min[1]
    ELSE LineRecord(ln).headway_patterns[1].offpeak_min[1]

\* C4: the headway of every row is pattern[i mod len(pattern)], i the position of
\* the row's timestamp in the day grid and pattern the line's peak list for a
\* peak row, its off-peak list otherwise; and the pick is periodic in len(seq).
C4_CyclicalHeadway ==
    /\ LET grid == times
       IN  \A c \in 1..Len(all_chunks) : \A k \in 1..Len(all_chunks[c].rows) :
          LET r == all_chunks[c].rows[k]
              pattern == LinePattern(r.line_name, r.is_peak)
          IN  /\ r.timestamp = grid[k]
              /\ r.headway_min = pattern[((k - 1) % Len(pattern)) + 1]
    /\ \A c \in 1..Len(all_chunks) : \A k \in 1..Len(all_chunks[c].rows) :
          \A peak \in BOOLEAN :
              LET seq == LinePattern(all_chunks[c].rows[k].line_name, peak)
              IN  cyclical_pick(seq, k - 1) = cyclical_pick(seq, k - 1 + Len(seq))

\* A block with peak and off-peak rows in which both patterns have wrapped around
\* and the peak row picked is not the first use of its pattern's first element.
C4_Witness ==
    \E c \in 1..Len(all_chunks) : \E j, k \in 1..Len(all_chunks[c].rows) :
        LET r == all_chunks[c].rows[k]
            q == all_chunks[c].rows[j]
        IN  /\ r.is_peak /\ ~q.is_peak
            /\ Len(LinePattern(r.line_name, TRUE)) = 2
            /\ Len(LinePattern(r.line_name, FALSE)) = 3
            /\ k - 1 = 2 /\ r.headway_min = LinePattern(r.line_name, TRUE)[1]
            /\ j - 1 = 3 /\ q.headway_min = LinePattern(r.line_name, FALSE)[1]

(***************************************************************************)
(* C5.                                                                     *)
(***************************************************************************)
LineWindows(ln) ==
    IF LineRecord(ln).peak_windows = NoneV THEN <<>> ELSE LineRecord(ln).peak_windows[1]

ClockMinutes(c) == 60 * c.hh + c.mm

C6_TableIsOrderedConcatenation ==
    Concatenated =>
        LET kept == SelectSeq(AllPairs, PairKept)
            grid == times
            T == Len(grid)
        IN  /\ Len(day_df.rows) = T * Len(kept)
            /\ \A b \in 1..Len(kept) : \A k \in 1..T :
                  LET r == day_df.rows[(b - 1) * T + k]
                  IN  /\ r.station_code = stations[kept[b][1]].station_code
                      /\ r.line_name = PairLine(kept[b])
                      /\ r.timestamp = grid[k]
                      /\ k < T => r.timestamp < day_df.rows[(b - 1) * T + k + 1].timestamp

\* A finished run whose table holds blocks of two stations, one of them with a
\* skipped pair before its kept one, and at least two rows per block.
C6_Witness ==
    /\ pc = "done"
    /\ Len(times) >= 2
    /\ Len(SelectSeq(AllPairs, PairKept)) >= 3
    /\ Len(SelectSeq(AllPairs, PairSkipped)) >= 1
    /\ day_df.rows[1].station_code # day_df.rows[Len(day_df.rows)].station_code

(***************************************************************************)
(* C7.                                                                     *)
(***************************************************************************)
\* C7: a row carries crowding_station_pct exactly when its station's occupancy
\* cap is present and non-zero, crowding_platform_pct exactly when the platform
\* cap is, and flow_vs_peak_pct exactly when the peak-flow cap is, each on its
\* own; a zero or missing cap ends no run (the only failures are the KeyError
\* and the SystemExit).
C7_PctIffCapPresent ==
    /\ LET rows == EmittedRows
       IN  \A k \in 1..Len(rows) :
          LET r == rows[k]
              st == SeedStation(r.station_code)
          IN  /\ "crowding_station_pct" \in DOMAIN r <=> CapPresent(st.occupancy_cap)
              /\ "crowding_platform_pct" \in DOMAIN r <=> CapPresent(st.platform_cap)
              /\ "flow_vs_peak_pct" \in DOMAIN r <=> CapPresent(st.peak_cap)
    /\ Concatenated => day_df.rows = EmittedRows
    /\ exit \in {"running", "ok", "KeyError", "SystemExit"}

\* A finished run with a row of a station that has no occupancy cap, a zero
\* platform cap and a peak-flow cap, and a row of a station that has an
\* occupancy cap, no platform cap and a zero peak-flow cap.
C7_Witness ==
    /\ exit = "ok"
    /\ \E k \in 1..Len(day_df.rows) :
          /\ day_df.rows[k].station_code = "S2"
          /\ DOMAIN day_df.rows[k] \cap
                 {"crowding_station_pct", "crowding_platform_pct", "flow_vs_peak_pct"}
             = {"flow_vs_peak_pct"}
    /\ \E k \in 1..Len(day_df.rows) :
          /\ day_df.rows[k].station_code = "S4"
          /\ DOMAIN day_df.rows[k] \cap
                 {"crowding_station_pct", "crowding_platform_pct", "flow_vs_peak_pct"}
             = {"crowding_station_pct"}

C9_FlowFromRoundedTph ==
    LET rows == EmittedRows
    IN  \A k \in 1..Len(rows) :
        LET r == rows[k]
        IN  /\ 2 * Abs(r.trains_per_hour * r.headway_min - 60 * 1000) <= r.headway_min
            /\ Abs(60 * r.passengers_per_min - r.trains_per_hour * r.train_capacity) <= 60

\* C9, amended: in every row, trains_per_hour is 60 / headway_min rounded to 3
\* decimals, and passengers_per_min is the unrounded trains-per-hour *
\* train_capacity / 60, that is train_capacity / headway_min, rounded to 3
\* decimals (both within 0.0005); against the rounded trains_per_hour it agrees
\* only within 0.0005 * (1 + train_capacity / 60).
C9_FlowFromUnroundedTph ==
    LET rows == EmittedRows
    IN  \A k \in 1..Len(rows) :
        LET r == rows[k]
        IN  /\ 2 * Abs(r.trains_per_hour * r.headway_min - 60 * 1000) <= r.headway_min
            /\ 2 * Abs(r.passengers_per_min * r.headway_min - 1000 * r.train_capacity)
                   <= r.headway_min
            /\ 2 * Abs(60 * r.passengers_per_min - r.trains_per_hour * r.train_capacity)
                   <= 60 + r.train_capacity

\* A row whose flow is off the flow of its rounded trains-per-hour by more than a
\* unit of the third decimal (headway 7, capacity 1000: 142.857 against 142.85).
C9_Witness ==
    \E k \in 1..Len(EmittedRows) :
        /\ EmittedRows[k].headway_min = 7
        /\ EmittedRows[k].train_capacity = 1000
        /\ EmittedRows[k].trains_per_hour = 8571
        /\ EmittedRows[k].passengers_per_min = 142857

(***************************************************************************)
(* C10.                                                                    *)
(***************************************************************************)
\* C10 as stated: in every row, estimated_present is a nearest integer of the
\* row's (3-decimal) passengers_per_min * dwell minutes.
C10_PresentFromRowFlow ==
    LET rows == EmittedRows
    IN  \A k \in 1..Len(rows) :
        LET r == rows[k]
        IN  2 * Abs(1000 * r.estimated_present - r.passengers_per_min * dwell_min) <= 1000

\* C10, amended: in every row, estimated_present is a nearest integer of the
\* unrounded passengers-per-minute * dwell minutes, that is of train_capacity *
\* dwell / headway_min, the dwell being 12 when the configuration gives none.
C10_PresentFromUnroundedFlow ==
    LET rows == EmittedRows
    IN  \A k \in 1..Len(rows) :
        LET r == rows[k]
            dwell == IF CFG.avg_dwell_min = NoneV THEN 12 ELSE CFG.avg_dwell_min[1]
        IN  2 * Abs(r.estimated_present * r.headway_min - r.train_capacity * dwell)
                <= r.headway_min

\* Under the default dwell, a row whose count differs from the rounding of its
\* 3-decimal flow times the dwell (capacity 1225, headway 24: 612 = round(612.5),
\* against round(51.042 * 12) = 613).
C10_Witness ==
    \E k \in 1..Len(EmittedRows) :
        /\ CFG.avg_dwell_min = NoneV
        /\ EmittedRows[k].train_capacity = 1225
        /\ EmittedRows[k].headway_min = 24
        /\ EmittedRows[k].passengers_per_min = 51042
        /\ EmittedRows[k].estimated_present = 612

====
